---- MODULE Spec2Model ----
(***************************************************************************)
(* StackedConnections (lgensinger/stacked-connections): the data-to-       *)
(* geometry pipeline of the class, as a state machine.                     *)
(*                                                                         *)
(* Two variants of the class are in the repository: the current one        *)
(* (src/unnamed/part_001: padding resolution, connection paths) and the    *)
(* legacy one (src/src/visualization/index.js).  The variable `variant`    *)
(* says which class the instance is built from.                            *)
(*                                                                         *)
(* Strings are sequences of one-character strings, so that split("."),     *)
(* includes() and template concatenation are computed, not assumed.        *)
(* Numbers are exact rationals n/d (d > 0, lowest terms) or NaN.           *)
(***************************************************************************)
EXTENDS Integers, Sequences, FiniteSets, TLC

VARIABLES
    variant,          \* "current" | "legacy": which class definition is instantiated
    args,             \* the constructor's positional arguments (caller-owned)
    pc,               \* "new" | "ready" | "threw": position of the instance's life
    dataSource,       \* this.dataSource
    width,            \* this.width
    height,           \* this.height
    includeValueInLabel, \* this.includeValueInLabel
    paddingStackCell, \* this.paddingStackCell
    paddingStackText, \* this.paddingStackText
    stacks,           \* this.stacks
    barWidth,         \* this.barWidth
    connectionPaths,  \* this.connectionPaths
    lastData,         \* what the latest read of `data` returned (or that it threw)
    lastLayout,       \* what the latest call of generateStackLayout returned
    rendered          \* what render() left in the DOM (or that it threw)

vars == <<variant, args, pc, dataSource, width, height, includeValueInLabel,
          paddingStackCell, paddingStackText, stacks, barWidth, connectionPaths,
          lastData, lastLayout, rendered>>

(***************************************************************************)
(* Bounds of the model.                                                    *)
(***************************************************************************)
MaxStacks == 2      \* stacks in a raw input of the lifecycle specification
MaxConns == 2       \* connections in a raw input of the lifecycle specification
MaxValue == 1       \* item values are 1..MaxValue in the lifecycle specification
PathStacks == 4     \* stacks in an input of the connection-path specification
PathConns == 3      \* connections in an input of the connection-path specification
PadItems == 2       \* items per stack in the padding specification
PadStacks == 2      \* stacks in the padding specification
PadHeight == 4      \* artboard heights 0..PadHeight, below and above the annotation space
PadRequest == 3     \* requested paddings 0..PadRequest in the padding specification
GeoValue == 1       \* item values are 0..GeoValue in the geometry specification
GeoLowHeight == 20  \* an artboard height below the space reserved for the annotations

(***************************************************************************)
(* Program constants.                                                      *)
(***************************************************************************)
DefaultHeight == 600
DefaultWidth == 600
DefaultPaddingStackText == 2
ArtboardUnit == 16
\* the declared parameters of the test file
testWidth == 300
testHeight == 500
testPaddingCell == 5
testPaddingText == 10

(***************************************************************************)
(* Numbers: exact rationals, and NaN.                                      *)
(***************************************************************************)
Abs(x) == IF x < 0 THEN -x ELSE x

RECURSIVE Gcd(_, _)
Gcd(a, b) == IF b = 0 THEN a ELSE Gcd(b, a % b)

NaN == [nan |-> TRUE, n |-> 0, d |-> 1]

\* the number n/d (d # 0), in lowest terms with a positive denominator
Rat(n, d) ==
    LET g == Gcd(Abs(n), Abs(d))
        s == IF d < 0 THEN -1 ELSE 1
    IN  [nan |-> FALSE, n |-> s * (n \div g), d |-> s * (d \div g)]

Num(i) == Rat(i, 1)

Sub(x, y) == IF x.nan \/ y.nan THEN NaN ELSE Rat(x.n * y.d - y.n * x.d, x.d * y.d)
Mul(x, y) == IF x.nan \/ y.nan THEN NaN ELSE Rat(x.n * y.n, x.d * y.d)
\* x / y for y # 0 or x = y = 0 (0/0 is NaN); the model never divides a
\* non-zero number by zero
Div(x, y) == IF x.nan \/ y.nan \/ y.n = 0 THEN NaN ELSE Rat(x.n * y.d, x.d * y.n)
Add(x, y) == IF x.nan \/ y.nan THEN NaN ELSE Rat(x.n * y.d + y.n * x.d, x.d * y.d)
\* x < y and x <= y: false when either is NaN
Lt(x, y) == ~x.nan /\ ~y.nan /\ x.n * y.d < y.n * x.d
Le(x, y) == ~x.nan /\ ~y.nan /\ x.n * y.d <= y.n * x.d

(***************************************************************************)
(* Strings.                                                                *)
(***************************************************************************)
Dot == "."

\* the characters of the model's strings, in collation order (localeCompare:
\* punctuation, then letters, a lower-case letter before its upper case)
Chars == <<".", "a", "b", "B", "c", "d", "e", "f", "z">>

\* the same characters in code-point order (upper case before lower case)
CodePoints == <<".", "B", "a", "b", "c", "d", "e", "f", "z">>

\* the letters item keys are numbered with
Letters == <<"a", "b", "c", "d", "z">>

CharRank(c) == CHOOSE i \in 1..Len(Chars) : Chars[i] = c

\* the letter without its case
Fold(c) == IF c = "B" THEN "b" ELSE c

Folded(s) == [i \in 1..Len(s) |-> Fold(s[i])]

\* the first level of the collation: the letters, case ignored
RECURSIVE PrimaryLess(_, _)
PrimaryLess(a, b) ==
    IF b = <<>> THEN FALSE
    ELSE IF a = <<>> THEN TRUE
    ELSE IF Head(a) = Head(b) THEN PrimaryLess(Tail(a), Tail(b))
    ELSE CharRank(Head(a)) < CharRank(Head(b))

\* a.localeCompare(b) < 0: by the letters first and, the letters being the
\* same, lower case first at the first difference
LocaleLess(a, b) ==
    IF Folded(a) # Folded(b) THEN PrimaryLess(Folded(a), Folded(b))
    ELSE \E i \in 1..Len(a) :
            /\ a[i] # b[i]
            /\ \A j \in 1..(i - 1) : a[j] = b[j]
            /\ a[i] = Fold(a[i])

\* a < b: the order of the UTF-16 code units
RECURSIVE CodePointLess(_, _)
CodePointLess(a, b) ==
    LET rank(c) == CHOOSE i \in 1..Len(CodePoints) : CodePoints[i] = c
    IN  IF b = <<>> THEN FALSE
        ELSE IF a = <<>> THEN TRUE
        ELSE IF Head(a) = Head(b) THEN CodePointLess(Tail(a), Tail(b))
        ELSE rank(Head(a)) < rank(Head(b))

\* s.split(".")[s.split(".").length - 1]
LastSegment(s) ==
    LET dots == {i \in 1..Len(s) : s[i] = Dot}
    IN  IF dots = {} THEN s
        ELSE SubSeq(s, (CHOOSE i \in dots : \A j \in dots : j <= i) + 1, Len(s))

\* dt.includes(d)
Includes(dt, d) ==
    \E i \in 0..(Len(dt) - Len(d)) : SubSeq(dt, i + 1, i + Len(d)) = d

\* `${s}.${t}`
Template(s, t) == s \o <<Dot>> \o t

\* the elements of a sequence
Range(s) == {s[i] : i \in 1..Len(s)}

(***************************************************************************)
(* JavaScript values of the model.                                         *)
(*   raw input   [defined, fields, stacks, connections]: `fields` are the  *)
(*               own keys of the object (Object.keys), `stacks` and        *)
(*               `connections` its two arrays (<<>> when the field is      *)
(*               absent)                                                   *)
(*   raw stack   [label, isNull, items]: { label: mapping }, the mapping   *)
(*               null or its [key, value] entries in Object.keys order     *)
(*   connection  [source, target]                                          *)
(***************************************************************************)
Undefined == [defined |-> FALSE, fields |-> {}, stacks |-> <<>>, connections |-> <<>>]

NullScale == [isNull |-> TRUE, domain |-> 0, range |-> Num(0)]

NullLayout == [isNull |-> TRUE, series |-> <<>>, scale |-> NullScale, totalValues |-> 0]

NullList == [isNull |-> TRUE, list |-> <<>>]

List(l) == [isNull |-> FALSE, list |-> l]

\* F(v) with v computed once: a local `let x = v` of the code
With(v, F(_)) == CHOOSE y \in {F(x) : x \in {v}} : TRUE

\* what a call returns: a value, or an exception thrown
Return(v) == [threw |-> FALSE, v |-> v]
Throw(v) == [threw |-> TRUE, v |-> v]

(***************************************************************************)
(* generateStackLayout                                                     *)
(***************************************************************************)
\* a comparator without the tie-break: (a,b) => b.value - a.value
SortsBeforeByValue(a, b) == a.value > b.value

\* the comparator (a,b) => b.value - a.value || a.key.localeCompare(b.key)
\* is negative: a sorts before b
SortsBefore(a, b) ==
    \/ a.value > b.value
    \/ a.value = b.value /\ LocaleLess(a.key, b.key)

\* Array.prototype.sort with that comparator (stable insertion of each
\* entry, in input order, behind every entry it does not sort before)
RECURSIVE InsertSorted(_, _)
InsertSorted(sorted, e) ==
    IF sorted = <<>> THEN <<e>>
    ELSE IF SortsBefore(e, Head(sorted)) THEN <<e>> \o sorted
    ELSE <<Head(sorted)>> \o InsertSorted(Tail(sorted), e)

RECURSIVE SortEntries(_)
SortEntries(items) ==
    IF items = <<>> THEN <<>>
    ELSE InsertSorted(SortEntries(SubSeq(items, 1, Len(items) - 1)), items[Len(items)])

\* keysSorted: the entries of the mapping in sorted order
KeysSorted(items) == SortEntries(items)

\* a sort that reorders the entries of the mapping itself
EntriesSortedInPlace(items) == SortEntries(items)

\* the entries of `data` after generateStackLayout(data): map() builds the
\* array that sort() reorders, stack() and sum() only read, so no entry of
\* the mapping is written
EntriesAfterLayout(items) == items

\* sum(Object.keys(data).map(d => data[d]))
RECURSIVE SumValues(_)
SumValues(items) ==
    IF items = <<>> THEN 0 ELSE Head(items).value + SumValues(Tail(items))

\* a stack layout that does not accumulate: every interval starts at 0
StackSeriesFromZero(sorted) ==
    [i \in 1..Len(sorted) |->
        [key |-> sorted[i].key, lo |-> 0, hi |-> sorted[i].value, index |-> i - 1]]

\* stack().keys(keysSorted)([data]): one series per key, holding the single
\* point [lo, hi] with lo the sum of the values before it
StackSeries(sorted) ==
    [i \in 1..Len(sorted) |->
        [key |-> sorted[i].key,
         lo |-> SumValues(SubSeq(sorted, 1, i - 1)),
         hi |-> SumValues(SubSeq(sorted, 1, i)),
         index |-> i - 1]]

\* this.paddingAnnotations = this.artboardUnit * 2
PaddingAnnotations == ArtboardUnit * 2

\* the number of paddings subtracted from the scale's range
PadCount(var, n) == IF var = "current" THEN n ELSE n - 1

\* generateStackLayout(data) on the instance (var, h, pad)
GenerateStackLayout(var, h, pad, mapping) ==
    IF mapping.isNull \/ Len(mapping.items) = 0 THEN NullLayout
    ELSE
        LET keysSorted == KeysSorted(mapping.items)
            dataValues == SumValues(mapping.items)
            paddingValues == Mul(pad, Num(PadCount(var, Len(keysSorted))))
        IN  [isNull |-> FALSE,
             series |-> StackSeries(keysSorted),
             scale |-> [isNull |-> FALSE,
                        domain |-> dataValues,
                        range |-> Sub(Sub(Num(h), paddingValues), Num(PaddingAnnotations))],
             totalValues |-> dataValues]

(***************************************************************************)
(* get data                                                                *)
(***************************************************************************)
\* a filter on the wrong end of the connection: d.target instead of d.source
FilterConnectionsByTarget(connections, series) ==
    SelectSeq(connections, LAMBDA d : d.target \in {series[i].key : i \in 1..Len(series)})

\* the connections attached to one stack
FilterConnections(connections, series) ==
    SelectSeq(connections, LAMBDA d : d.source \in {series[i].key : i \in 1..Len(series)})

\* one entry of the derived array
DataEntry(var, h, pad, src, s) ==
    LET stacked == GenerateStackLayout(var, h, pad, s)
    IN  [connections |-> IF stacked.isNull THEN NullList
                         ELSE List(FilterConnections(src.connections, stacked.series)),
         key |-> s.label,
         scale |-> stacked.scale,
         series |-> stacked.series,
         totalValues |-> stacked.totalValues]

\* the getter: null, the derived array, or a TypeError
GetData(var, h, pad, src) ==
    IF ~src.defined \/ Cardinality(src.fields) # 2 THEN Return(NullList)
    ELSE IF "stacks" \notin src.fields THEN Throw(NullList)   \* undefined is not iterable
    ELSE IF /\ "connections" \notin src.fields                \* undefined.filter
            /\ \E i \in 1..Len(src.stacks) :
                  ~GenerateStackLayout(var, h, pad, src.stacks[i]).isNull
         THEN Throw(NullList)
    ELSE Return(List([i \in 1..Len(src.stacks) |-> DataEntry(var, h, pad, src, src.stacks[i])]))

\* the mappings of the raw input after generateStackLayout(m), m one of them
\* (mappings with equal entries are not told apart)
RawAfterLayout(src, m) ==
    [src EXCEPT !.stacks =
        [i \in 1..Len(src.stacks) |->
            IF ~m.isNull /\ ~src.stacks[i].isNull /\ src.stacks[i].items = m.items
            THEN [src.stacks[i] EXCEPT !.items = EntriesAfterLayout(m.items)]
            ELSE src.stacks[i]]]

\* the raw input after a read of `data`: the loop calls generateStackLayout
\* with every mapping; filter() builds a new array of the same connection
\* objects and writes none
RawAfterData(src) ==
    IF ~src.defined \/ Cardinality(src.fields) # 2 THEN src
    ELSE [src EXCEPT !.stacks =
            [i \in 1..Len(src.stacks) |->
                [src.stacks[i] EXCEPT !.items = EntriesAfterLayout(src.stacks[i].items)]]]

(***************************************************************************)
(* get horizontalScale                                                     *)
(***************************************************************************)
\* the domain of the band scale
BandDomain(stks) == IF stks.isNull THEN <<>> ELSE [i \in 1..Len(stks.list) |-> stks.list[i].key]

\* scaleBand().rangeRound([0, w]).paddingInner(0.9): step is
\* floor(w / max(1, n - 0.9)), n the size of the domain
BandStep(n, w) == (10 * w) \div (IF 10 * n - 9 > 10 THEN 10 * n - 9 ELSE 10)

\* bandwidth() is round(step * (1 - 0.9)); 1 - 0.9 is just below 0.1 in
\* double arithmetic, so a half rounds down
Bandwidth(n, w) == (BandStep(n, w) + 4) \div 10

\* the start of the first band: round((w - step * (n - 0.9)) * 0.5), the
\* alignment of scaleBand
BandStart(n, w) == (10 * w - BandStep(n, w) * (10 * n - 9) + 10) \div 20

\* this.horizontalScale(key): the left edge of the band of the stack `key`
HorizontalScale(stks, w, key) ==
    LET domain == BandDomain(stks)
        i == CHOOSE k \in 1..Len(domain) : domain[k] = key
    IN  BandStart(Len(domain), w) + BandStep(Len(domain), w) * (i - 1)

\* scale(v) of scaleLinear().domain([0, D]).range([0, r]): r * v / D, and
\* the middle of the range when the domain is [0, 0]
ScaleAt(scale, v) ==
    IF scale.domain = 0 THEN Mul(scale.range, Rat(1, 2))
    ELSE Mul(scale.range, Rat(v, scale.domain))

(***************************************************************************)
(* generateConnectionPaths                                                 *)
(***************************************************************************)
\* the inner loop: one stack's connections pushed onto result
RECURSIVE AddConnections(_, _)
AddConnections(result, conns) ==
    IF conns = <<>> THEN result
    ELSE
        LET dt == Head(conns)
            segmentsWithSource == SelectSeq(result, LAMBDA d : LastSegment(d) = dt.source)
            hasPrefix == Len(segmentsWithSource) > 0
            pushed == IF hasPrefix
                      THEN [i \in 1..Len(segmentsWithSource) |->
                               Template(segmentsWithSource[i], dt.target)]
                      ELSE <<Template(dt.source, dt.target)>>
        IN  AddConnections(result \o pushed, Tail(conns))

\* the outer loop; a stack whose connections are null throws (null.forEach)
RECURSIVE AccumulatePaths(_, _)
AccumulatePaths(result, stks) ==
    IF stks = <<>> THEN Return(result)
    ELSE IF Head(stks).connections.isNull THEN Throw(result)
    ELSE AccumulatePaths(AddConnections(result, Head(stks).connections.list), Tail(stks))

\* the final double loop: for every d, every dt that contains d and is
\* longer is pushed
RECURSIVE PrunePaths(_, _)
PrunePaths(result, i) ==
    IF i > Len(result) THEN <<>>
    ELSE SelectSeq(result, LAMBDA dt : Includes(dt, result[i]) /\ Len(dt) > Len(result[i]))
         \o PrunePaths(result, i + 1)

GenerateConnectionPaths(stks) ==
    IF stks.isNull THEN Throw(<<>>)                           \* null.forEach
    ELSE
        LET acc == AccumulatePaths(<<>>, stks.list)
        IN  IF acc.threw THEN Throw(<<>>) ELSE Return(PrunePaths(acc.v, 1))

(***************************************************************************)
(* constructor                                                             *)
(***************************************************************************)
\* a positional argument: <<>> when not passed (undefined), <<v>> when passed
Given(a) == Len(a) > 0

\* configurationLayout.paddingStackCell: configurationDimension.height * .02
DefaultPaddingStackCell == (DefaultHeight * 2) \div 100

JsTrue == [type |-> "boolean", val |-> 1]

JsNumber(n) == [type |-> "number", val |-> n]

\* the default parameter values of the signature
ArgWidth(a) == IF Given(a.width) THEN a.width[1] ELSE DefaultWidth
ArgHeight(a) == IF Given(a.height) THEN a.height[1] ELSE DefaultHeight
ArgIncludeValueInLabel(a) ==
    IF Given(a.includeValueInLabel) THEN a.includeValueInLabel[1] ELSE JsTrue
ArgPaddingStackCell(a) ==
    IF Given(a.paddingStackCell) THEN a.paddingStackCell[1] ELSE DefaultPaddingStackCell
ArgPaddingStackText(a) ==
    IF Given(a.paddingStackText) THEN a.paddingStackText[1] ELSE DefaultPaddingStackText

\* max(this.dataSource.stacks.map(d => Object.keys(d[Object.keys(d)[0]]).length)):
\* <<>> (undefined) for no stacks, else <<the largest item count>>
MaxKeyCount(stks) ==
    IF stks = <<>> THEN <<>>
    ELSE <<CHOOSE m \in {Len(stks[i].items) : i \in 1..Len(stks)} :
             \A i \in 1..Len(stks) : Len(stks[i].items) <= m>>

\* paddingStackCell * (maxKeyCount - 1) < this.height; false when
\* maxKeyCount is undefined (NaN < height)
PaddingIsValid(p, h, m) == m # <<>> /\ p * (m[1] - 1) < h

\* a constructor without the fallback: the requested padding is kept
KeepRequestedPadding(p, h, m) == Num(p)

\* the padding the constructor leaves in this.paddingStackCell
ResolvePadding(p, h, m) ==
    IF PaddingIsValid(p, h, m) THEN Num(p)
    ELSE IF m = <<>> THEN NaN                                 \* height / undefined
    ELSE Mul(Div(Num(h), Num(m[1])), Rat(2, 10))              \* (height / maxKeyCount) * 0.2

\* the constructor of the current class reads the stacks before any check:
\* it throws on undefined data, on a missing `stacks` and on a null mapping
ReadsOfStacksThrow(src) ==
    \/ ~src.defined
    \/ "stacks" \notin src.fields
    \/ \E i \in 1..Len(src.stacks) : src.stacks[i].isNull

\* the instance the current constructor builds, or the fact that it threw
ConstructCurrent(a) ==
    IF ReadsOfStacksThrow(a.data) THEN Throw(<<>>)
    ELSE
        LET h == ArgHeight(a)
            pad == ResolvePadding(ArgPaddingStackCell(a), h, MaxKeyCount(a.data.stacks))
            data == GetData("current", h, pad, a.data)
            paths == GenerateConnectionPaths(data.v)
        IN  IF data.threw \/ paths.threw THEN Throw(<<>>)
            ELSE Return([paddingStackCell |-> pad,
                         stacks |-> data.v,
                         barWidth |-> Bandwidth(Len(BandDomain(data.v)), ArgWidth(a)),
                         connectionPaths |-> paths.v])

\* the legacy constructor: no padding resolution, no connection paths
ConstructLegacy(a) ==
    LET pad == Num(ArgPaddingStackCell(a))
        data == GetData("legacy", ArgHeight(a), pad, a.data)
    IN  IF data.threw THEN Throw(<<>>)
        ELSE Return([paddingStackCell |-> pad,
                     stacks |-> data.v,
                     barWidth |-> Bandwidth(Len(BandDomain(data.v)), ArgWidth(a)),
                     connectionPaths |-> <<>>])

ConstructorResult(var, a) == IF var = "current" THEN ConstructCurrent(a) ELSE ConstructLegacy(a)

\* new StackedConnections(...) returns an instance
Construct ==
    /\ pc = "new"
    /\ ~ConstructorResult(variant, args).threw
    /\ LET self == ConstructorResult(variant, args).v
       IN  /\ pc' = "ready"
           /\ dataSource' = RawAfterData(args.data)
           /\ args' = [args EXCEPT !.data = RawAfterData(args.data)]
           /\ width' = ArgWidth(args)
           /\ height' = ArgHeight(args)
           /\ includeValueInLabel' = ArgIncludeValueInLabel(args)
           /\ paddingStackCell' = self.paddingStackCell
           /\ paddingStackText' = ArgPaddingStackText(args)
           /\ stacks' = self.stacks
           /\ barWidth' = self.barWidth
           /\ connectionPaths' = self.connectionPaths
    /\ UNCHANGED <<variant, lastData, lastLayout, rendered>>

\* new StackedConnections(...) throws: there is no instance
ConstructThrows ==
    /\ pc = "new"
    /\ ConstructorResult(variant, args).threw
    /\ pc' = "threw"
    /\ UNCHANGED <<variant, args, dataSource, width, height, includeValueInLabel,
                   paddingStackCell, paddingStackText, stacks, barWidth,
                   connectionPaths, lastData, lastLayout, rendered>>

(***************************************************************************)
(* Reads and calls on an instance.                                         *)
(***************************************************************************)
NotRead == [read |-> FALSE, threw |-> FALSE, v |-> NullList]

NotCalled == [called |-> FALSE, v |-> NullLayout]

\* a read of the getter `data`
ReadData ==
    /\ pc = "ready"
    /\ LET r == GetData(variant, height, paddingStackCell, dataSource)
       IN  lastData' = [read |-> TRUE, threw |-> r.threw, v |-> r.v]
    /\ dataSource' = RawAfterData(dataSource)
    /\ args' = [args EXCEPT !.data = RawAfterData(dataSource)]
    /\ UNCHANGED <<variant, pc, width, height, includeValueInLabel,
                   paddingStackCell, paddingStackText, stacks, barWidth,
                   connectionPaths, lastLayout, rendered>>

\* the mappings generateStackLayout is called with: none (undefined), or a
\* mapping of the raw input
LayoutArguments ==
    {[isNull |-> TRUE, items |-> <<>>]}
    \cup {[isNull |-> s.isNull, items |-> s.items] : s \in Range(dataSource.stacks)}

\* a call of generateStackLayout
CallGenerateStackLayout ==
    /\ pc = "ready"
    /\ \E m \in LayoutArguments :
          /\ lastLayout' = [called |-> TRUE,
                            v |-> GenerateStackLayout(variant, height, paddingStackCell, m)]
          /\ dataSource' = RawAfterLayout(dataSource, m)
          /\ args' = [args EXCEPT !.data = RawAfterLayout(dataSource, m)]
    /\ UNCHANGED <<variant, pc, width, height, includeValueInLabel,
                   paddingStackCell, paddingStackText, stacks, barWidth,
                   connectionPaths, lastData, rendered>>

(***************************************************************************)
(* render                                                                  *)
(***************************************************************************)
\* series.filter(x => x.key === key)[0]: <<>> when undefined
SeriesOf(series, key) ==
    LET found == SelectSeq(series, LAMBDA x : x.key = key)
    IN  IF found = <<>> THEN <<>> ELSE <<found[1]>>

\* the callback of .attr("d", ...) on one connection: reading [0] of an
\* undefined layout throws
ConnectorThrows(sourceStack, targetStack, d) ==
    \/ SeriesOf(sourceStack.series, d.source) = <<>>
    \/ SeriesOf(targetStack.series, d.target) = <<>>

\* the commands of d3's path()
moveTo(x, y) == [cmd |-> "moveTo", xy |-> <<x, y>>]
lineTo(x, y) == [cmd |-> "lineTo", xy |-> <<x, y>>]
bezierCurveTo(x1, y1, x2, y2, x, y) == [cmd |-> "bezierCurveTo", xy |-> <<x1, y1, x2, y2, x, y>>]
closePath == [cmd |-> "closePath", xy |-> <<>>]

\* an edge without the paddings of the items above it
EdgeYUnpadded(scale, bound, pad, index) == ScaleAt(scale, bound)

\* stack.scale(item[k]) + (this.paddingStackCell * layout.index)
EdgeY(scale, bound, pad, index) == Add(ScaleAt(scale, bound), Mul(pad, Num(index)))

\* the path the callback of .attr("d", ...) builds for the connection d
\* (its source and target found); self is the instance
ConnectorPath(self, sourceStack, targetStack, d) ==
    LET sourceStackLayout == SeriesOf(sourceStack.series, d.source)[1]
        targetStackLayout == SeriesOf(targetStack.series, d.target)[1]
        pad == self.paddingStackCell
        n == Len(BandDomain(self.stacks))
        halfStep == Rat(BandStep(n, self.width), 2)
        sourceX == Num(HorizontalScale(self.stacks, self.width, sourceStack.key) + self.barWidth)
        sourceY0 == EdgeY(sourceStack.scale, sourceStackLayout.lo, pad, sourceStackLayout.index)
        sourceY1 == EdgeY(sourceStack.scale, sourceStackLayout.hi, pad, sourceStackLayout.index)
        targetX == Num(HorizontalScale(self.stacks, self.width, targetStack.key))
        targetY0 == EdgeY(targetStack.scale, targetStackLayout.lo, pad, targetStackLayout.index)
        targetY1 == EdgeY(targetStack.scale, targetStackLayout.hi, pad, targetStackLayout.index)
    IN  << moveTo(sourceX, sourceY0),
           bezierCurveTo(Add(sourceX, halfStep), sourceY0,
                         Sub(targetX, halfStep), targetY0,
                         targetX, targetY0),
           lineTo(targetX, targetY1),
           bezierCurveTo(Sub(targetX, halfStep), targetY0,
                         Add(sourceX, halfStep), sourceY1,
                         sourceX, sourceY1),
           closePath >>

\* the connectors of one group given their "d", in order, up to the first
\* callback that throws
RECURSIVE DrawGroup(_, _, _, _)
DrawGroup(self, sourceStack, targetStack, conns) ==
    IF conns = <<>> THEN Return(<<>>)
    ELSE IF ConnectorThrows(sourceStack, targetStack, Head(conns)) THEN Throw(<<>>)
    ELSE
        LET this == [source |-> Head(conns).source, target |-> Head(conns).target,
                     group |-> sourceStack.key,
                     d |-> ConnectorPath(self, sourceStack, targetStack, Head(conns))]
        IN  With(DrawGroup(self, sourceStack, targetStack, Tail(conns)),
                 LAMBDA rest : [threw |-> rest.threw, v |-> <<this>> \o rest.v])

\* generateConnections over the groups i = 0 .. length - 2 of
\* generateConnectionGroups; .data(null) of a stack without connections throws
RECURSIVE DrawGroups(_, _)
DrawGroups(self, i) ==
    LET stks == self.stacks.list
    IN  IF i >= Len(stks) THEN Return(<<>>)
        ELSE IF stks[i].connections.isNull THEN Throw(<<>>)
        ELSE
            With(DrawGroup(self, stks[i], stks[i + 1], stks[i].connections.list),
                 LAMBDA group :
                    IF group.threw THEN group
                    ELSE With(DrawGroups(self, i + 1),
                              LAMBDA rest : [threw |-> rest.threw, v |-> group.v \o rest.v]))

GenerateConnections(self) ==
    IF self.stacks.isNull THEN Return(<<>>) ELSE DrawGroups(self, 1)

\* the fields of the instance that drawing reads
This == [stacks |-> stacks, width |-> width, barWidth |-> barWidth,
         paddingStackCell |-> paddingStackCell]

NotRendered == [called |-> FALSE, threw |-> FALSE, connectors |-> <<>>,
                bars |-> FALSE, labels |-> FALSE]

\* render(domNode): the current class draws connections, bars, labels; the
\* legacy class bars, connections, labels.  An exception ends the call.
RenderResult(var, self) ==
    With(GenerateConnections(self),
         LAMBDA c : [called |-> TRUE,
                     threw |-> c.threw,
                     connectors |-> c.v,
                     bars |-> (var = "legacy" \/ ~c.threw),
                     labels |-> ~c.threw])

\* render(domNode) returns
Render ==
    /\ pc = "ready"
    /\ ~RenderResult(variant, This).threw
    /\ rendered' = RenderResult(variant, This)
    /\ UNCHANGED <<variant, args, pc, dataSource, width, height, includeValueInLabel,
                   paddingStackCell, paddingStackText, stacks, barWidth,
                   connectionPaths, lastData, lastLayout>>

\* render(domNode) throws out of generateConnections
RenderThrows ==
    /\ pc = "ready"
    /\ RenderResult(variant, This).threw
    /\ rendered' = RenderResult(variant, This)
    /\ UNCHANGED <<variant, args, pc, dataSource, width, height, includeValueInLabel,
                   paddingStackCell, paddingStackText, stacks, barWidth,
                   connectionPaths, lastData, lastLayout>>

(***************************************************************************)
(* The raw inputs of the specifications.                                   *)
(***************************************************************************)
Key(c) == <<c>>

\* stack labels "stack1", "stack2", ... by position
StackLabel(i) == <<"s", i>>

\* sequences over S of length at most n
SeqsUpTo(S, n) == UNION {[1..k -> S] : k \in 0..n}

\* the mappings over a set of keys, values in Vals: every subset of the
\* keys, in collation order of insertion, or null
RECURSIVE ItemLists(_, _)
ItemLists(keys, Vals) ==
    IF keys = {} THEN {<<>>}
    ELSE LET k == CHOOSE x \in keys : \A y \in keys : x = y \/ LocaleLess(x, y)
             rest == ItemLists(keys \ {k}, Vals)
         IN  rest \cup {<<[key |-> k, value |-> v]>> \o r : v \in Vals, r \in rest}

\* the keys of a list of raw stacks, with repetition counted
RECURSIVE AllItemKeys(_)
AllItemKeys(stks) ==
    IF stks = <<>> THEN <<>>
    ELSE [i \in 1..Len(Head(stks).items) |-> Head(stks).items[i].key] \o AllItemKeys(Tail(stks))

\* "item keys are globally unique"
UniqueKeys(stks) ==
    LET ks == AllItemKeys(stks) IN Cardinality(Range(ks)) = Len(ks)

\* lists of at most n raw stacks over the keys, globally unique
StackLists(keys, Vals, n, withNull) ==
    LET maps == {[isNull |-> FALSE, items |-> it] : it \in ItemLists(keys, Vals)}
                \cup (IF withNull THEN {[isNull |-> TRUE, items |-> <<>>]} ELSE {})
        raw == SeqsUpTo(maps, n)
        Labelled(r) == [i \in 1..Len(r) |->
                           [label |-> StackLabel(i), isNull |-> r[i].isNull, items |-> r[i].items]]
    IN  {Labelled(r) : r \in {x \in raw : UniqueKeys(x)}}

\* lists of at most n connections between different keys
Connections(ends, n) ==
    SeqsUpTo({c \in [source : ends, target : ends] : c.source # c.target}, n)

\* the object { stacks: s, connections: c }
WellFormedData(s, c) ==
    [defined |-> TRUE, fields |-> {"stacks", "connections"}, stacks |-> s, connections |-> c]

\* new StackedConnections(d): every other argument left out
OnlyData(d) == [data |-> d, width |-> <<>>, height |-> <<>>, includeValueInLabel |-> <<>>,
                paddingStackCell |-> <<>>, paddingStackText |-> <<>>]

\* new StackedConnections(p[1], p[2], ...): the values bound to the
\* parameters of the signature by position
Positional(p) ==
    LET at(i) == IF Len(p) >= i THEN <<p[i]>> ELSE <<>>
    IN  [data |-> p[1],
         width |-> at(2),
         height |-> at(3),
         includeValueInLabel |-> IF Len(p) >= 4 THEN <<JsNumber(p[4])>> ELSE <<>>,
         paddingStackCell |-> at(5),
         paddingStackText |-> at(6)]

\* testData of the test file (without the `focus` of the connections)
testData ==
    LET Item(k, v) == [key |-> k, value |-> v]
        Stack(i, items) == [label |-> StackLabel(i), isNull |-> FALSE, items |-> items]
    IN  WellFormedData(
            << Stack(1, <<Item(<<"a", "a", "a">>, 1), Item(<<"a", "a", "b">>, 2),
                          Item(<<"a", "a", "c">>, 3)>>),
               Stack(2, <<Item(<<"b", "b", "b">>, 2), Item(<<"b", "b", "c">>, 5)>>),
               Stack(3, <<Item(<<"c", "c", "c">>, 1), Item(<<"c", "c", "d">>, 8),
                          Item(<<"c", "c", "e">>, 8)>>),
               Stack(4, <<Item(<<"d", "d", "d">>, 5), Item(<<"d", "d", "e">>, 11),
                          Item(<<"d", "d", "f">>, 0)>>) >>,
            << [source |-> <<"a", "a", "a">>, target |-> <<"b", "b", "b">>],
               [source |-> <<"b", "b", "b">>, target |-> <<"c", "c", "d">>] >>)

\* new StackedConnections(testData, testWidth, testHeight, testPaddingCell, testPaddingText)
TestCall == Positional(<<testData, testWidth, testHeight, testPaddingCell, testPaddingText>>)

\* the state before `new`
Unbuilt ==
    /\ pc = "new"
    /\ dataSource = Undefined
    /\ width = 0
    /\ height = 0
    /\ includeValueInLabel = JsTrue
    /\ paddingStackCell = Num(0)
    /\ paddingStackText = 0
    /\ stacks = NullList
    /\ barWidth = 0
    /\ connectionPaths = <<>>
    /\ lastData = NotRead
    /\ lastLayout = NotCalled
    /\ rendered = NotRendered

Next ==
    \/ Construct
    \/ ConstructThrows
    \/ ReadData
    \/ CallGenerateStackLayout
    \/ Render
    \/ RenderThrows

(***************************************************************************)
(* Lifecycle specification: any raw input, well-formed or not.             *)
(***************************************************************************)
ItemKeys == {Key("a"), Key("b")}

\* a key that is an item of no stack
Dangling == Key("z")

\* the objects with the own keys f; one with a field that is not of the
\* data format carries at most one connection
RawInputsWith(f) ==
    {[defined |-> TRUE, fields |-> f,
      stacks |-> IF "stacks" \in f THEN s ELSE <<>>,
      connections |-> IF "connections" \in f THEN c ELSE <<>>] :
        s \in StackLists(ItemKeys, 1..MaxValue, MaxStacks, TRUE),
        c \in Connections(ItemKeys \cup {Dangling},
                          IF "extra" \in f THEN 1 ELSE MaxConns)}

\* the fields an input object may have
RawFields == {"stacks", "connections", "extra"}

Init ==
    /\ variant \in {"current", "legacy"}
    /\ \/ args = OnlyData(Undefined)
       \/ \E f \in SUBSET RawFields : \E d \in RawInputsWith(f) : args = OnlyData(d)
       \/ args = TestCall
    /\ Unbuilt

Spec == Init /\ [][Next]_vars

(***************************************************************************)
(* Connection-path specification: well-formed inputs of up to PathStacks   *)
(* stacks, stack i holding the i-th key (the last stack possibly nothing), *)
(* and any connections between the keys (chains, branches, merges, back    *)
(* edges, loops, sources in no stack).                                     *)
(***************************************************************************)
PathKeyAt(i) == Key(Letters[i])

PathKeys == {PathKeyAt(i) : i \in 1..PathStacks}

PathStackLists ==
    LET Stack(i, present) ==
            [label |-> StackLabel(i), isNull |-> FALSE,
             items |-> IF present THEN <<[key |-> PathKeyAt(i), value |-> 1]>> ELSE <<>>]
    IN  {[i \in 1..n |-> Stack(i, i < n \/ lastHasItem)] :
            n \in 0..PathStacks, lastHasItem \in BOOLEAN}

WellFormed(s, c) == WellFormedData(s, c)

InitPaths ==
    /\ variant = "current"
    /\ \E s \in PathStackLists, c \in Connections(PathKeys, PathConns) :
          args = OnlyData(WellFormed(s, c))
    /\ Unbuilt

SpecPaths == InitPaths /\ [][Next]_vars

\* s.split(".")
RECURSIVE Split(_)
Split(s) ==
    LET dots == {i \in 1..Len(s) : s[i] = Dot}
    IN  IF dots = {} THEN <<s>>
        ELSE LET first == CHOOSE i \in dots : \A j \in dots : i <= j
             IN  <<SubSeq(s, 1, first - 1)>> \o Split(SubSeq(s, first + 1, Len(s)))

\* keys joined by "."
RECURSIVE Dotted(_)
Dotted(keys) ==
    IF Len(keys) = 1 THEN keys[1] ELSE Template(Dotted(SubSeq(keys, 1, Len(keys) - 1)), keys[Len(keys)])

\* the raw input is a chain: k + 1 >= 2 stacks of one item each and the k
\* connections item(i) -> item(i + 1), in stack order
IsChain(src) ==
    /\ Len(src.stacks) >= 2
    /\ \A i \in 1..Len(src.stacks) : Len(src.stacks[i].items) = 1
    /\ src.connections = [i \in 1..(Len(src.stacks) - 1) |->
                            [source |-> src.stacks[i].items[1].key,
                             target |-> src.stacks[i + 1].items[1].key]]

ChainKeys(src) == [i \in 1..Len(src.stacks) |-> src.stacks[i].items[1].key]

Built == pc = "ready" /\ variant = "current"

\* C1: on a chain of k >= 1 connections over k + 1 stacks,
\* generateConnectionPaths returns the single full-chain string and nothing else
C1_ChainYieldsOnlyFullPath ==
    (Built /\ IsChain(dataSource)) => connectionPaths = <<Dotted(ChainKeys(dataSource))>>

\* the raw input is a branch x -> y, x -> z: x an item of a stack, y and z
\* different and the source of no connection
IsBranch(src) ==
    /\ Len(src.connections) = 2
    /\ src.connections[1].source = src.connections[2].source
    /\ src.connections[1].target # src.connections[2].target
    /\ src.connections[1].target # src.connections[1].source
    /\ src.connections[2].target # src.connections[1].source
    /\ src.connections[1].source \in Range(AllItemKeys(src.stacks))

\* C2: on a branch a -> b, a -> c, generateConnectionPaths returns exactly
\* the two paths "a.b" and "a.c"
C2_BranchKeepsBothPaths ==
    (Built /\ IsBranch(dataSource)) =>
        Range(connectionPaths) =
            {Template(dataSource.connections[i].source, dataSource.connections[i].target) :
                i \in 1..2}

\* C3: no returned path is a proper substring (so no proper prefix) of
\* another returned path
C3_NoPathInsideAnother ==
    Built => \A i, j \in 1..Len(connectionPaths) :
                ~(/\ Includes(connectionPaths[j], connectionPaths[i])
                  /\ Len(connectionPaths[j]) > Len(connectionPaths[i]))

\* the connections retained by the filtering of `data`, over all stacks
RECURSIVE Retained(_)
Retained(stks) ==
    IF stks = <<>> THEN <<>>
    ELSE (IF Head(stks).connections.isNull THEN <<>> ELSE Head(stks).connections.list)
         \o Retained(Tail(stks))

\* "s.t" are adjacent segments of the path
AdjacentIn(path, c) ==
    LET seg == Split(path)
    IN  \E i \in 1..(Len(seg) - 1) : seg[i] = c.source /\ seg[i + 1] = c.target

\* C4: every retained connection s -> t is adjacent segments "s.t" of a
\* returned path, and a single retained connection gives exactly {"s.t"}
C4_RetainedConnectionIsInSomePath ==
    Built =>
        LET kept == Retained(stacks.list)
        IN  /\ \A i \in 1..Len(kept) :
                  \E k \in 1..Len(connectionPaths) : AdjacentIn(connectionPaths[k], kept[i])
            /\ (Len(dataSource.connections) = 1 /\ Len(kept) = 1) =>
                  Range(connectionPaths) = {Template(kept[1].source, kept[1].target)}

(***************************************************************************)
(* Claims on the lifecycle specification.                                  *)
(***************************************************************************)
\* a raw input object without `stacks` or without `connections`
MissingField(src) == src.defined /\ ~({"stacks", "connections"} \subseteq src.fields)

\* the null / empty sentinel of the derived array
IsSentinel(l) == l.isNull \/ l.list = <<>>

\* C5: a raw input missing `stacks` or `connections`, whatever else it
\* carries, is constructed and read without an exception, and the derived
\* array is the null / empty sentinel
C5_MissingFieldNeverThrows ==
    (pc # "new" /\ MissingField(args.data)) =>
        /\ pc = "ready"
        /\ IsSentinel(stacks)
        /\ lastData.read => (~lastData.threw /\ IsSentinel(lastData.v))

\* new StackedConnections()
NoArguments == args = OnlyData(Undefined)

\* C6: new StackedConnections() does not throw; the instance has the
\* configuration defaults, null data, a band scale over an empty domain and
\* generateStackLayout() returns null
C6_NoArgumentsConstructs ==
    (pc # "new" /\ NoArguments) =>
        /\ pc = "ready"
        /\ height = DefaultHeight
        /\ width = DefaultWidth
        /\ paddingStackCell = Num(DefaultPaddingStackCell)
        /\ paddingStackText = DefaultPaddingStackText
        /\ stacks.isNull
        /\ BandDomain(stacks) = <<>>
        /\ lastData.read => (~lastData.threw /\ lastData.v.isNull)
        /\ lastLayout.called => lastLayout.v.isNull

\* a well-formed raw input: exactly the two fields
IsWellFormed(src) == src.defined /\ src.fields = {"stacks", "connections"}

EmptyMapping(s) == s.isNull \/ s.items = <<>>

\* C7: a stack with zero items (or a null mapping) gets the sentinel entry
\* and construction still completes, every sibling stack getting its layout
C7_EmptyStackDoesNotBlock ==
    (/\ pc # "new"
     /\ IsWellFormed(args.data)
     /\ \E i \in 1..Len(args.data.stacks) : EmptyMapping(args.data.stacks[i])) =>
        /\ pc = "ready"
        /\ ~stacks.isNull
        /\ Len(stacks.list) = Len(args.data.stacks)
        /\ \A i \in 1..Len(args.data.stacks) :
              LET raw == args.data.stacks[i]
                  e == stacks.list[i]
              IN  IF EmptyMapping(raw)
                  THEN e.series = <<>> /\ e.totalValues = 0 /\ e.scale.isNull
                  ELSE Len(e.series) = Len(raw.items) /\ ~e.scale.isNull

\* the item keys of one raw stack
RawKeys(s) == {s.items[j].key : j \in 1..Len(s.items)}

\* the k-th smallest element of a set of numbers
KthOf(J, k) == CHOOSE j \in J : Cardinality({x \in J : x <= j}) = k

\* the list attached to a derived entry (none when null)
Attached(e) == IF e.connections.isNull THEN <<>> ELSE e.connections.list

RECURSIVE TotalAttached(_)
TotalAttached(derived) ==
    IF derived = <<>> THEN 0 ELSE Len(Attached(Head(derived))) + TotalAttached(Tail(derived))

\* the derived array attaches to each stack the input connections whose
\* source is an item of the stack, in input order, and no other
FilteredBySource(src, derived) ==
    /\ Len(derived) = Len(src.stacks)
    /\ \A i \in 1..Len(derived) :
          LET J == {j \in 1..Len(src.connections) :
                       src.connections[j].source \in RawKeys(src.stacks[i])}
              l == Attached(derived[i])
          IN  /\ Len(l) = Cardinality(J)
              /\ \A k \in 1..Len(l) : l[k] = src.connections[KthOf(J, k)]
    /\ TotalAttached(derived) =
          Cardinality({j \in 1..Len(src.connections) :
                          \E i \in 1..Len(src.stacks) :
                              src.connections[j].source \in RawKeys(src.stacks[i])})

\* C8: `data` attaches a connection to a stack iff its source is an item
\* key of the stack, in input order; with unique keys every connection
\* whose source exists is in exactly one list, and a connection whose source
\* is in no stack is in none and raises no error
C8_ConnectionsFilteredBySource ==
    (pc = "ready" /\ IsWellFormed(dataSource)) =>
        /\ ~stacks.isNull
        /\ FilteredBySource(dataSource, stacks.list)
        /\ lastData.read =>
              /\ ~lastData.threw
              /\ ~lastData.v.isNull
              /\ FilteredBySource(dataSource, lastData.v.list)

\* two stacks, a connection whose source is in no stack and one attached
\* to the second stack, read through `data`
C8_Witness ==
    /\ pc = "ready"
    /\ IsWellFormed(dataSource)
    /\ lastData.read
    /\ Len(lastData.v.list) = 2
    /\ Len(dataSource.connections) = 2
    /\ dataSource.connections[1].source = Dangling
    /\ Attached(lastData.v.list[1]) = <<>>
    /\ Attached(lastData.v.list[2]) = <<dataSource.connections[2]>>

\* the connections of the drawn groups whose target is an item of the next stack
RECURSIVE Resolvable(_, _)
Resolvable(stks, i) ==
    IF i >= Len(stks) THEN <<>>
    ELSE SelectSeq(Attached(stks[i]),
                   LAMBDA d : \E j \in 1..Len(stks[i + 1].series) :
                                  stks[i + 1].series[j].key = d.target)
         \o Resolvable(stks, i + 1)

RECURSIVE Drawn(_, _)
Drawn(stks, i) ==
    IF i >= Len(stks) THEN <<>> ELSE Attached(stks[i]) \o Drawn(stks, i + 1)

\* C9: when a retained connection's target is not an item of the next
\* stack, only that connector fails: every other connector, and the rest of
\* render (bars, labels), is still produced
C9_UnresolvableTargetIsConfined ==
    (/\ rendered.called
     /\ ~stacks.isNull
     /\ \A i \in 1..Len(stacks.list) : ~stacks.list[i].connections.isNull
     /\ Resolvable(stacks.list, 1) # Drawn(stacks.list, 1)) =>
        /\ [i \in 1..Len(rendered.connectors) |->
               [source |-> rendered.connectors[i].source,
                target |-> rendered.connectors[i].target]] = Resolvable(stacks.list, 1)
        /\ rendered.bars
        /\ rendered.labels

(***************************************************************************)
(* Padding specification: well-formed inputs of up to PadStacks stacks of  *)
(* up to PadItems items, constructed with a height and a requested padding.*)
(* The heights are 0..PadHeight and 1..PadHeight above the space reserved  *)
(* for the annotations.                                                    *)
(***************************************************************************)
PadHeights == (0..PadHeight) \cup {PaddingAnnotations + h : h \in 1..PadHeight}

PadKey(i, j) == <<Letters[i], Letters[j]>>

PadStackLists ==
    LET Stack(i, k) ==
            [label |-> StackLabel(i), isNull |-> FALSE,
             items |-> [j \in 1..k |-> [key |-> PadKey(i, j), value |-> 1]]]
    IN  {[i \in 1..Len(ks) |-> Stack(i, ks[i])] : ks \in SeqsUpTo(0..PadItems, PadStacks)}

InitPadding ==
    /\ variant = "current"
    /\ \E s \in PadStackLists, c \in Connections({PadKey(1, 1), Dangling}, 1),
          h \in PadHeights, p \in 0..PadRequest :
          args = [OnlyData(WellFormed(s, c)) EXCEPT !.height = <<h>>, !.paddingStackCell = <<p>>]
    /\ Unbuilt

SpecPadding == InitPadding /\ [][Next]_vars

\* M: the largest item count over the raw stacks, 0 when there is none
LargestItemCount(stks) ==
    CHOOSE m \in {0} \cup {Len(stks[i].items) : i \in 1..Len(stks)} :
        \A i \in 1..Len(stks) : Len(stks[i].items) <= m

\* C10: the padding stored at construction is the requested P when
\* P * (M - 1) < H and (H / M) * 0.2 otherwise; with M <= 1, no stacks
\* included, it is P
C10_PaddingRule ==
    Built =>
        LET P == ArgPaddingStackCell(args)
            H == height
            M == LargestItemCount(dataSource.stacks)
        IN  paddingStackCell = IF P * (M - 1) < H THEN Num(P)
                               ELSE Mul(Div(Num(H), Num(M)), Rat(2, 10))

\* P' * (M - 1) < H, or M <= 1
LeavesRoom(pad, m, h) == m <= 1 \/ Lt(Mul(pad, Num(m - 1)), Num(h))

\* C11 (as stated): for every requested padding, height and largest item
\* count M the stored padding P' satisfies P' * (M - 1) < H, or else M <= 1
C11_PaddingLeavesRoomAnyHeight ==
    Built => LeavesRoom(paddingStackCell, LargestItemCount(dataSource.stacks), height)

\* C11 (amended): for every requested padding, every POSITIVE height and
\* every largest item count M the stored padding P' satisfies
\* P' * (M - 1) < H, or else M <= 1
C11_PaddingLeavesRoom ==
    (Built /\ height > 0) =>
        LeavesRoom(paddingStackCell, LargestItemCount(dataSource.stacks), height)

\* a positive height that the requested padding overflows: the fallback is stored
C11_Witness ==
    /\ Built
    /\ height > 0
    /\ LargestItemCount(dataSource.stacks) >= 2
    /\ ArgPaddingStackCell(args) * (LargestItemCount(dataSource.stacks) - 1) >= height
    /\ paddingStackCell # Num(ArgPaddingStackCell(args))

(***************************************************************************)
(* Geometry specification: two stacks, the first a mapping over the keys   *)
(* a, b, B in any insertion order with values 0..GeoValue, the second the  *)
(* items c (0..GeoValue) and d (1); the default height or a low one; the   *)
(* connections a -> d and B -> z, z no item.                                *)
(***************************************************************************)
GeoKeys == {Key("a"), Key("b"), Key("B")}

\* the mappings over the keys in every insertion order
Mappings(keys, Vals) ==
    {m \in SeqsUpTo([key : keys, value : Vals], Cardinality(keys)) :
        \A i, j \in 1..Len(m) : i # j => m[i].key # m[j].key}

GeoStackLists ==
    {<< [label |-> StackLabel(1), isNull |-> FALSE, items |-> m],
        [label |-> StackLabel(2), isNull |-> FALSE,
         items |-> <<[key |-> Key("c"), value |-> vc], [key |-> Key("d"), value |-> 1]>>] >> :
        m \in Mappings(GeoKeys, 0..GeoValue), vc \in 0..GeoValue}

GeoConnections ==
    LET toItem == [source |-> Key("a"), target |-> Key("d")]
        toNone == [source |-> Key("B"), target |-> Dangling]
    IN  {<<>>, <<toItem>>, <<toNone>>, <<toItem, toNone>>}

InitGeometry ==
    /\ variant \in {"current", "legacy"}
    /\ \E s \in GeoStackLists, c \in GeoConnections, h \in {<<>>, <<GeoLowHeight>>} :
          args = [OnlyData(WellFormed(s, c)) EXCEPT !.height = h]
    /\ Unbuilt

SpecGeometry == InitGeometry /\ [][Next]_vars

\* the value the mapping gives the key
ValueOf(items, k) == (CHOOSE e \in Range(items) : e.key = k).value

\* the key order of a derived series
KeyOrder(series) == [j \in 1..Len(series) |-> series[j].key]

\* the key order is the mapping's keys, each once, by value descending and,
\* the values being equal, by key ascending in the order Less
OrderedBy(items, order, Less(_, _)) ==
    /\ Len(order) = Len(items)
    /\ Range(order) = {items[j].key : j \in 1..Len(items)}
    /\ \A j, k \in 1..Len(order) :
          j < k => \/ ValueOf(items, order[j]) > ValueOf(items, order[k])
                   \/ /\ ValueOf(items, order[j]) = ValueOf(items, order[k])
                      /\ Less(order[j], order[k])

\* the same mapping in any insertion order gives the same key order, and
\* sorting the sorted entries again leaves them as they are
Deterministic(items, order) ==
    /\ \A p \in Permutations(1..Len(items)) :
          KeyOrder(KeysSorted([j \in 1..Len(items) |-> items[p[j]]])) = order
    /\ KeyOrder(KeysSorted([j \in 1..Len(order) |->
                               [key |-> order[j], value |-> ValueOf(items, order[j])]])) = order

\* C12 (as stated): the key order of every non-empty stack is a permutation
\* of the mapping's keys by value descending, ties by key ascending in
\* code-point order, independent of the insertion order and unchanged by
\* sorting again
C12_KeyOrderByCodePoint ==
    pc = "ready" =>
        \A i \in 1..Len(stacks.list) :
            dataSource.stacks[i].items # <<>> =>
                /\ OrderedBy(dataSource.stacks[i].items, KeyOrder(stacks.list[i].series),
                             CodePointLess)
                /\ Deterministic(dataSource.stacks[i].items, KeyOrder(stacks.list[i].series))

\* C12 (amended): the key order of every non-empty stack is a permutation
\* of the mapping's keys by value descending, ties by key ascending in the
\* order of localeCompare, independent of the insertion order and unchanged
\* by sorting again
C12_KeyOrderByLocale ==
    pc = "ready" =>
        \A i \in 1..Len(stacks.list) :
            dataSource.stacks[i].items # <<>> =>
                /\ OrderedBy(dataSource.stacks[i].items, KeyOrder(stacks.list[i].series),
                             LocaleLess)
                /\ Deterministic(dataSource.stacks[i].items, KeyOrder(stacks.list[i].series))

\* a mapping inserted as B, b, a with B and a tied below b: sorted b, a, B
C12_Witness ==
    /\ pc = "ready"
    /\ KeyOrder(dataSource.stacks[1].items) = <<Key("B"), Key("b"), Key("a")>>
    /\ ValueOf(dataSource.stacks[1].items, Key("B")) = ValueOf(dataSource.stacks[1].items, Key("a"))
    /\ ValueOf(dataSource.stacks[1].items, Key("b")) > ValueOf(dataSource.stacks[1].items, Key("a"))
    /\ KeyOrder(stacks.list[1].series) = <<Key("b"), Key("a"), Key("B")>>

\* the widths of the intervals, added up
RECURSIVE SumWidths(_)
SumWidths(series) ==
    IF series = <<>> THEN 0 ELSE (Head(series).hi - Head(series).lo) + SumWidths(Tail(series))

\* the series of one stack against its raw mapping
CumulativeSeries(items, e) ==
    /\ OrderedBy(items, KeyOrder(e.series), LocaleLess)
    /\ \A j \in 1..Len(e.series) :
          /\ e.series[j].index = j - 1
          /\ e.series[j].lo = (IF j = 1 THEN 0 ELSE e.series[j - 1].hi)
          /\ e.series[j].hi = e.series[j].lo + ValueOf(items, e.series[j].key)
    /\ SumWidths(e.series) = e.totalValues
    /\ e.totalValues = SumValues(items)

\* C13: for every non-empty stack the series has one entry per item in
\* sorted order, entry i has index i and the interval from the sum of the
\* values before it to the sum through it; the intervals are contiguous
\* from 0 and their widths add up to totalValues, the sum of the item values
C13_SeriesIsCumulative ==
    pc = "ready" =>
        \A i \in 1..Len(stacks.list) :
            dataSource.stacks[i].items # <<>> =>
                CumulativeSeries(dataSource.stacks[i].items, stacks.list[i])

\* three items whose values differ, among them a zero: three contiguous intervals
C13_Witness ==
    /\ pc = "ready"
    /\ Len(stacks.list[1].series) = 3
    /\ stacks.list[1].totalValues = 2
    /\ stacks.list[1].series[2].lo = 1
    /\ stacks.list[1].series[3].lo = 2
    /\ stacks.list[1].series[3].hi = 2

\* the anchors the design gives the connector c: the band edges, and for
\* each end the top and bottom of the item, scale(bound) + padding * index
Anchors(c) ==
    LET i == CHOOSE k \in 1..Len(stacks.list) : stacks.list[k].key = c.group
        sourceStack == stacks.list[i]
        targetStack == stacks.list[i + 1]
        s == CHOOSE e \in Range(sourceStack.series) : e.key = c.source
        t == CHOOSE e \in Range(targetStack.series) : e.key = c.target
        n == Len(stacks.list)
        Y(stack, bound, index) ==
            Add(ScaleAt(stack.scale, bound), Mul(paddingStackCell, Num(index)))
    IN  [sourceX |-> Num(HorizontalScale(stacks, width, sourceStack.key) + Bandwidth(n, width)),
         targetX |-> Num(HorizontalScale(stacks, width, targetStack.key)),
         sourceTopY |-> Y(sourceStack, s.lo, s.index),
         sourceBottomY |-> Y(sourceStack, s.hi, s.index),
         targetTopY |-> Y(targetStack, t.lo, t.index),
         targetBottomY |-> Y(targetStack, t.hi, t.index),
         halfStep |-> Rat(BandStep(n, width), 2)]

\* the contour of the connector: moveTo, curve, lineTo, curve, closePath
\* through the four anchors
ClosedContour(c) ==
    LET A == Anchors(c)
    IN  /\ Len(c.d) = 5
        /\ c.d[1] = [cmd |-> "moveTo", xy |-> <<A.sourceX, A.sourceTopY>>]
        /\ c.d[2].cmd = "bezierCurveTo"
        /\ SubSeq(c.d[2].xy, 5, 6) = <<A.targetX, A.targetTopY>>
        /\ c.d[3] = [cmd |-> "lineTo", xy |-> <<A.targetX, A.targetBottomY>>]
        /\ c.d[4].cmd = "bezierCurveTo"
        /\ SubSeq(c.d[4].xy, 5, 6) = <<A.sourceX, A.sourceBottomY>>
        /\ c.d[5] = [cmd |-> "closePath", xy |-> <<>>]

\* C14: every connector built for a retained connection whose source and
\* target resolve is the closed contour moveTo(sourceX, sourceTopY), curve
\* to (targetX, targetTopY), lineTo(targetX, targetBottomY), curve to
\* (sourceX, sourceBottomY), closePath, with sourceX the right edge of the
\* source band, targetX the left edge of the target band and each
\* Y = scale(bound) + padding * index; also for a zero-value item
C14_ConnectorIsClosedContour ==
    rendered.called =>
        /\ \A k \in 1..Len(rendered.connectors) : ClosedContour(rendered.connectors[k])
        /\ ~rendered.threw =>
              [k \in 1..Len(rendered.connectors) |->
                  [source |-> rendered.connectors[k].source,
                   target |-> rendered.connectors[k].target]] = Resolvable(stacks.list, 1)

\* a connector from a zero-value item that is not the first of its stack:
\* its top and bottom coincide at the source, below the padding
C14_Witness ==
    /\ rendered.called
    /\ ~rendered.threw
    /\ Len(rendered.connectors) = 1
    /\ ValueOf(dataSource.stacks[1].items, rendered.connectors[1].source) = 0
    /\ Anchors(rendered.connectors[1]).sourceTopY = Anchors(rendered.connectors[1]).sourceBottomY
    /\ Lt(Num(0), Anchors(rendered.connectors[1]).sourceTopY)
    /\ Anchors(rendered.connectors[1]).targetTopY # Anchors(rendered.connectors[1]).targetBottomY

\* C15: with non-negative item values, for every height and requested
\* padding the constructor accepts, every connector has top Y <= bottom Y at
\* the source end and at the target end
C15_TopAboveBottom ==
    rendered.called =>
        \A k \in 1..Len(rendered.connectors) :
            LET d == rendered.connectors[k].d
            IN  /\ Le(d[1].xy[2], d[4].xy[6])        \* sourceY0 <= sourceY1
                /\ Le(d[2].xy[6], d[3].xy[2])        \* targetY0 <= targetY1

\* C18: the four control points are offset only horizontally, by half the
\* step, from the endpoint they belong to: (sourceX + step/2, sourceTopY),
\* (targetX - step/2, targetTopY), then (targetX - step/2, targetBottomY),
\* (sourceX + step/2, sourceBottomY)
C18_ControlPointsOffsetHorizontally ==
    rendered.called =>
        \A k \in 1..Len(rendered.connectors) :
            LET A == Anchors(rendered.connectors[k])
                d == rendered.connectors[k].d
            IN  /\ SubSeq(d[2].xy, 1, 4) = <<Add(A.sourceX, A.halfStep), A.sourceTopY,
                                             Sub(A.targetX, A.halfStep), A.targetTopY>>
                /\ SubSeq(d[4].xy, 1, 4) = <<Sub(A.targetX, A.halfStep), A.targetBottomY,
                                             Add(A.sourceX, A.halfStep), A.sourceBottomY>>

\* C16: the instance the test builds with the positional arguments
\* (testData, 300, 500, 5, 10) reports width 300, height 500,
\* paddingStackCell 5 and paddingStackText 10
C16_TestArgumentsAreReported ==
    (pc # "new" /\ args = TestCall) =>
        /\ pc = "ready"
        /\ width = testWidth
        /\ height = testHeight
        /\ paddingStackCell = Num(testPaddingCell)
        /\ paddingStackText = testPaddingText

\* the padding the resolution stores when its guard counts M - less paddings
ResolvedCounting(less, P, H, M) ==
    IF P * (M - less) < H THEN Num(P) ELSE Mul(Div(Num(H), Num(M)), Rat(2, 10))

\* C17: the vertical scale of every non-empty stack with a positive total
\* sends 0 to 0 and totalValues to H - P' * padCount - R, R subtracted once,
\* padCount being the item count or the item count - 1, the same for every
\* stack and the same count as the padding-validity guard uses
C17_ScaleRangeOneConvention ==
    (Built /\ dataSource.stacks # <<>>) =>
        \E less \in {0, 1} :
            /\ \A i \in 1..Len(stacks.list) :
                  stacks.list[i].totalValues > 0 =>
                      LET e == stacks.list[i]
                          padCount == Len(dataSource.stacks[i].items) - less
                      IN  /\ ~e.scale.isNull
                          /\ ScaleAt(e.scale, 0) = Num(0)
                          /\ ScaleAt(e.scale, e.totalValues) =
                                Sub(Sub(Num(height), Mul(paddingStackCell, Num(padCount))),
                                    Num(PaddingAnnotations))
            /\ paddingStackCell =
                  ResolvedCounting(less, ArgPaddingStackCell(args), height,
                                   LargestItemCount(dataSource.stacks))

\* C19: for every positive height, every requested padding >= 0 and every
\* non-empty stack of n items, the upper bound H - P' * n - R of the
\* stack's vertical-scale range is strictly positive
C19_RangeIsPositive ==
    (Built /\ height > 0 /\ ArgPaddingStackCell(args) >= 0) =>
        \A i \in 1..Len(stacks.list) :
            dataSource.stacks[i].items # <<>> =>
                /\ stacks.list[i].scale.range =
                      Sub(Sub(Num(height),
                              Mul(paddingStackCell, Num(Len(dataSource.stacks[i].items)))),
                          Num(PaddingAnnotations))
                /\ Lt(Num(0), stacks.list[i].scale.range)

\* the position of the stack that holds the key (0: none)
StackOf(stks, k) ==
    IF \E i \in 1..Len(stks) : k \in RawKeys(stks[i])
    THEN CHOOSE i \in 1..Len(stks) : k \in RawKeys(stks[i])
    ELSE 0

\* C20: every returned path is a left-to-right chain: its segments are item
\* keys, every adjacent pair is a retained connection, and each key is in a
\* stack strictly to the right of the stack of the key before it
C20_PathsRunLeftToRight ==
    Built =>
        \A p \in 1..Len(connectionPaths) :
            LET seg == Split(connectionPaths[p])
            IN  /\ \A k \in 1..Len(seg) : StackOf(dataSource.stacks, seg[k]) > 0
                /\ \A k \in 1..(Len(seg) - 1) :
                      /\ [source |-> seg[k], target |-> seg[k + 1]]
                            \in Range(Retained(stacks.list))
                      /\ StackOf(dataSource.stacks, seg[k]) <
                            StackOf(dataSource.stacks, seg[k + 1])

C22_BarsStayInsideDrawableArea ==
    (Built /\ ArgPaddingStackCell(args) >= 0) =>
        \A k \in 1..Len(stacks.list) :
            LET e == stacks.list[k]
                topY(i) == EdgeY(e.scale, e.series[i].lo, paddingStackCell, e.series[i].index)
                bottomY(i) == EdgeY(e.scale, e.series[i].hi, paddingStackCell, e.series[i].index)
            IN  (e.series # <<>> /\ e.totalValues > 0) =>
                    /\ \A i \in 1..Len(e.series) :
                          /\ Le(Num(0), topY(i))
                          /\ Le(topY(i), bottomY(i))
                          /\ Le(bottomY(i), Num(height - PaddingAnnotations))
                    /\ \A i \in 1..(Len(e.series) - 1) :
                          topY(i + 1) = Add(bottomY(i), paddingStackCell)

====
